---------------------------- MODULE Spec2Model ----------------------------
(***************************************************************************)
(* Dynamic Form System: the React front end (formService, DynamicForm,     *)
(* SubmissionsList, App) and the submission engine it talks to.            *)
(*                                                                         *)
(* The front end is translated from src/unnamed/part_000 and               *)
(* src/frontend/src/App.jsx.  The engine behind /api/submissions (record   *)
(* store, duplicate index, cache) is not among the sources; it is modelled *)
(* from spec.md sections 3 to 5 and its definitions carry the prefix       *)
(* "Engine".                                                               *)
(*                                                                         *)
(* Strings are sequences of one-character strings, so that lowercasing,    *)
(* trimming, substring search and comparison are computed, not assumed.    *)
(***************************************************************************)
EXTENDS Integers, Sequences, FiniteSets, TLC

(***************************************************************************)
(* Bounds of the model (not program constants).                            *)
(***************************************************************************)
\* Submissions ever created in one behaviour (caps the id counter).
MaxSubmissions == 2
\* SpecList: submissions on record when the list is opened.
MaxListed == 2
\* SpecPage: submissions on record when the list is opened.
MaxPaged == 11
\* SpecPage, SpecList: deletes in one behaviour.
MaxDeletes == 1
\* SpecBulk: clicks on Next in one behaviour.
MaxPageClicks == 2
\* Delete buttons clicked (and confirmed) in one behaviour.
MaxDeleteClicks == 2
\* Clock ticks in one behaviour.
MaxTicks == 3

(***************************************************************************)
(* Program constants.                                                      *)
(***************************************************************************)
\* formService.getSubmissions / searchSubmissions: Math.min(limit || 50, 1000)
DefaultLimit == 50
LimitCap == 1000
\* SubmissionsList.fetchSubmissions asks for limit: 1000
FetchLimit == 1000
\* DynamicForm.loadExistingEmails asks for limit: 1000
EmailsLimit == 1000
\* App.formSchema
NameMinLength == 3
NameMaxLength == 50
AgeMin == 0
AgeMax == 120
\* README: cache entries live one hour (seconds)
CacheTTL == 3600

(***************************************************************************)
(* Characters and strings.                                                 *)
(***************************************************************************)
UpperChars == <<"A","B","C","D","E","F","G","H","I","J","K","L","M",
                "N","O","P","Q","R","S","T","U","V","W","X","Y","Z">>
LowerChars == <<"a","b","c","d","e","f","g","h","i","j","k","l","m",
                "n","o","p","q","r","s","t","u","v","w","x","y","z">>
DigitChars == <<"0","1","2","3","4","5","6","7","8","9">>

\* The characters the model uses, in increasing UTF-16 code unit order.
CharOrder == <<" ", ".">> \o DigitChars \o <<"@">> \o UpperChars \o LowerChars

Chars == {CharOrder[i] : i \in 1..Len(CharOrder)}

CharCodes == [c \in Chars |-> CHOOSE i \in 1..Len(CharOrder) : CharOrder[i] = c]
CharCode(c) == CharCodes[c]

IsUpper(c) == \E i \in 1..Len(UpperChars) : UpperChars[i] = c
IsDigit(c) == \E i \in 1..Len(DigitChars) : DigitChars[i] = c
IsSpace(c) == c = " "

\* String.prototype.toLowerCase, one character
LowerOf ==
    [c \in Chars |->
        IF IsUpper(c)
        THEN LowerChars[CHOOSE i \in 1..Len(UpperChars) : UpperChars[i] = c]
        ELSE c]
ToLowerChar(c) == LowerOf[c]

\* String.prototype.toLowerCase
ToLowerCase(s) == [i \in 1..Len(s) |-> ToLowerChar(s[i])]

\* String.prototype.trim
Trim(s) ==
    LET keep == {i \in 1..Len(s) : ~IsSpace(s[i])}
    IN  IF keep = {} THEN <<>>
        ELSE LET lo == CHOOSE i \in keep : \A j \in keep : i <= j
                 hi == CHOOSE i \in keep : \A j \in keep : i >= j
             IN  SubSeq(s, lo, hi)

\* String.prototype.includes
Includes(s, q) ==
    \E i \in 0..(Len(s) - Len(q)) : SubSeq(s, i + 1, i + Len(q)) = q

\* The < of two JavaScript strings: lexicographic on code units.
StrLess(a, b) ==
    \E i \in 1..(Len(b)) :
        /\ i <= Len(a) + 1
        /\ \A j \in 1..(i - 1) : a[j] = b[j]
        /\ \/ i = Len(a) + 1
           \/ (i <= Len(a) /\ CharCode(a[i]) < CharCode(b[i]))

\* Decimal digits of a non-negative integer, as String(n) writes them.
RECURSIVE DigitsOf(_)
DigitsOf(n) ==
    IF n < 10 THEN <<DigitChars[n + 1]>>
    ELSE Append(DigitsOf(n \div 10), DigitChars[(n % 10) + 1])

DigitValue(c) == (CHOOSE i \in 1..Len(DigitChars) : DigitChars[i] = c) - 1

(***************************************************************************)
(* JavaScript values of form_data.age: a number, a string or undefined.    *)
(***************************************************************************)
JsNum(k) == [t |-> "num", n |-> k, s |-> <<>>]
JsStr(x) == [t |-> "str", n |-> 0, s |-> x]
JsUndefined == [t |-> "undef", n |-> 0, s |-> <<>>]

\* Truthiness as && and || see it: 0, '' and undefined are falsy.
Truthy(v) ==
    CASE v.t = "num" -> v.n # 0
      [] v.t = "str" -> v.s # <<>>
      [] OTHER -> FALSE

\* String(v)
JsString(v) ==
    CASE v.t = "num" -> IF v.n < 0 THEN <<"-">> \o DigitsOf(-v.n) ELSE DigitsOf(v.n)
      [] v.t = "str" -> v.s
      [] OTHER -> <<"u","n","d","e","f","i","n","e","d">>

(***************************************************************************)
(* Form data.  A form is [name, email, age, gender]; name, email and       *)
(* gender are strings ('' when missing), age is a JavaScript value: the    *)
(* form sends the text of its input, an API client may send a number.      *)
(***************************************************************************)
sAnn == <<"a","n","n">>
sBob == <<"B","o","b">>
sMale == <<"m","a","l","e">>
sFemale == <<"f","e","m","a","l","e">>
sOther == <<"o","t","h","e","r">>
eA == <<"a","@","x",".","c">>
eAUpper == <<"A","@","x",".","c">>
eASpaced == <<" ","a","@","x",".","c">>
eB == <<"b","@","x",".","c">>

\* DynamicForm mount effect: initialData[key] = '' for every schema key
EmptyForm == [name |-> <<>>, email |-> <<>>, age |-> JsStr(<<>>), gender |-> <<>>]

\* What a user can type into the form (every value is the input's text).
UiForms ==
    { [name |-> sAnn, email |-> eA,      age |-> JsStr(<<"7">>),     gender |-> sFemale],
      [name |-> sBob, email |-> eAUpper, age |-> JsStr(<<"3","0">>), gender |-> sMale],
      [name |-> sBob, email |-> eB,      age |-> JsStr(<<"7">>),     gender |-> sOther],
      [name |-> <<>>, email |-> eB,      age |-> JsStr(<<"7">>),     gender |-> sMale] }

\* What the submissions the list specifications start from were made of.
ListForms ==
    { [name |-> sAnn, email |-> eA,      age |-> JsNum(0),           gender |-> sMale],
      [name |-> sBob, email |-> eAUpper, age |-> JsStr(<<"3","0">>), gender |-> sOther],
      [name |-> sAnn, email |-> eB,      age |-> JsNum(7),           gender |-> sFemale] }

\* What a user can type into the search box.
Queries == { <<>>, <<" ">>, <<"a","n">>, <<"B","O">>, <<"0">>, <<"1">> }

\* What an API client posts to /submissions/submit (README, "Test API").
ApiForms ==
    { [name |-> sAnn, email |-> eASpaced, age |-> JsNum(0), gender |-> sMale] }

(***************************************************************************)
(* State.                                                                  *)
(***************************************************************************)
VARIABLES
    \* engine
    store,            \* the stored submissions, in creation order
    nextId,           \* the id the next submission gets
    index,            \* Duplicate Index: normalized emails on record
    cache,            \* Cache Layer: query key -> [value, generation, insertedAt]
    generation,       \* cache generation, raised by every write
    now,              \* clock, in ticks
    \* App
    activeTab,
    refreshSubmissions,
    \* DynamicForm
    formData,
    errors,
    formLoading,
    submitError,
    existingEmails,
    emailsLoad,       \* "idle" or "pending": a loadExistingEmails call in flight
    \* SubmissionsList
    submissions,
    filteredSubmissions,
    total,
    listLoading,
    listError,
    searchQuery,
    page,
    pageSize,
    sortBy,
    sortOrder,
    listFetch,        \* "idle" or "pending": a fetchSubmissions call in flight
    \* formService request building (getSubmissions / searchSubmissions)
    request,
    \* requests under way, step by step
    checked,          \* engine: Submits past the existence check, not yet stored
    submitsInFlight,  \* DynamicForm: submitForm calls awaiting their response
    fetchesInFlight,  \* SubmissionsList: fetchSubmissions calls awaiting theirs
    deletesInFlight,  \* SubmissionsList: deleteSubmission calls awaiting theirs
    debounceTimer,    \* SubmissionsList: debounceTimer.current holds a live timer
    deleteClicks      \* SubmissionsList: handleDelete calls the user has confirmed

engineVars == <<store, nextId, index, cache, generation, now>>
appVars == <<activeTab, refreshSubmissions>>
formVars == <<formData, errors, formLoading, submitError,
              existingEmails, emailsLoad>>
listVars == <<submissions, filteredSubmissions, total, listLoading, listError,
              searchQuery, page, pageSize, sortBy, sortOrder, listFetch>>
asyncVars == <<checked, submitsInFlight, fetchesInFlight, deletesInFlight,
               debounceTimer, deleteClicks>>
vars == <<engineVars, appVars, formVars, listVars, request, asyncVars>>

(***************************************************************************)
(* Sorting.  Array.prototype.sort is stable: elements the comparator       *)
(* reports equal keep their input order.  less[<<i, j>>] says whether the  *)
(* comparator puts s[i] before s[j]; the comparators here are strict weak  *)
(* orders, so an input whose neighbours are all in order is its own sort   *)
(* and one whose neighbours are all strictly out of order is reversed.     *)
(***************************************************************************)
StableSort(s, less) ==
    LET n == Len(s)
        before(j, i) == less[<<j, i>>] \/ (~less[<<i, j>>] /\ j < i)
        rank == [i \in 1..n |-> 1 + Cardinality({j \in 1..n : before(j, i)})]
    IN  IF \A i \in 1..(n - 1) : ~less[<<i + 1, i>>]
        THEN s                                      \* already in order
        ELSE IF \A i \in 1..(n - 1) : less[<<i + 1, i>>]
        THEN [r \in 1..n |-> s[n + 1 - r]]          \* strictly in reverse order
        ELSE [r \in 1..n |-> s[CHOOSE i \in 1..n : rank[i] = r]]

\* Array.prototype.slice(from, to) with 0 <= from
Slice(s, from, to) ==
    LET hi == IF to < Len(s) THEN to ELSE Len(s)
    IN  IF from >= hi THEN <<>> ELSE SubSeq(s, from + 1, hi)

Min(a, b) == IF a < b THEN a ELSE b
Max(a, b) == IF a > b THEN a ELSE b

(***************************************************************************)
(* The submission engine (modelled from spec.md).                          *)
(***************************************************************************)
TickSeconds == CacheTTL \div 2
NowSeconds == now * TickSeconds

\* 4.1 Email normalization: lowercase, trim whitespace
EngineNormalize(email) == ToLowerCase(Trim(email))

\* 4.4 Submit fails with ValidationError if required fields are missing
EngineValid(form) == form.name # <<>> /\ Trim(form.email) # <<>>

\* an existence check that always answers yes
EngineExistsAlways(email) == TRUE

\* 4.1 exists(email)
EngineExists(email) == EngineNormalize(email) \in index

\* 3 Submission: id, echoed form_data, submitted_at, is_duplicate
EngineMakeSubmission(form, id, at, idx) ==
    [id |-> id, form_data |-> form, submitted_at |-> at,
     is_duplicate |-> EngineNormalize(form.email) \in idx]

\* 4.4 Submit: the submission appended for a form
EngineNewSubmission(form) == EngineMakeSubmission(form, nextId, NowSeconds, index)

\* the store after an API client has posted forms one after the other, a
\* tick apart when spaced, and nothing else has happened
StoreOf(forms, spaced) ==
    [i \in 1..Len(forms) |->
        EngineMakeSubmission(forms[i], i, IF spaced THEN (i - 1) * TickSeconds ELSE 0,
                             {EngineNormalize(forms[j].email) : j \in 1..(i - 1)})]

\* register that keys the index by the email as written
EngineRegisterRaw(email) == index \cup {email}

\* 4.1 register(email): idempotent
EngineRegister(email) == index \cup {EngineNormalize(email)}

\* a write that leaves the cache as it is
EngineInvalidateSkipped == generation

\* 4.2 invalidateAll(): the generation after a write
EngineInvalidate == generation + 1

\* 4.4 Delete: the store without the submission
EngineRemove(id) == SelectSeq(store, LAMBDA s : s.id # id)

\* 4.1 unregister(email), only when no other submission has the email
EngineUnregister(id) ==
    LET gone == CHOOSE s \in {store[i] : i \in 1..Len(store)} : s.id = id
        key == EngineNormalize(gone.form_data.email)
        rest == EngineRemove(id)
    IN  IF \E i \in 1..Len(rest) : EngineNormalize(rest[i].form_data.email) = key
        THEN index
        ELSE index \ {key}

EngineHasId(id) == \E i \in 1..Len(store) : store[i].id = id

\* 4.3 scan: sortField in {id, submitted_at}, ties broken by id ascending
EngineSortKey(s, field) == IF field = "submitted_at" THEN s.submitted_at ELSE s.id

EngineLess(a, b, field, order) ==
    LET ka == EngineSortKey(a, field)
        kb == EngineSortKey(b, field)
    IN  \/ (order = "desc" /\ ka > kb)
        \/ (order # "desc" /\ ka < kb)
        \/ (ka = kb /\ a.id < b.id)

\* 4.4 List: limit clamped to 1000, skip below 0 clamped to 0
EngineScan(st, params) ==
    LET sorted == StableSort(st, [p \in (1..Len(st)) \X (1..Len(st)) |->
                        EngineLess(st[p[1]], st[p[2]], params.sort_by, params.order)])
        skip == Max(params.skip, 0)
        limit == Min(params.limit, LimitCap)
    IN  [submissions |-> Slice(sorted, skip, skip + limit), total |-> Len(st)]

\* a hit that only needs the current generation
EngineCacheHitForever(params) ==
    /\ params \in DOMAIN cache
    /\ cache[params].generation = generation

\* 4.2 get(queryKey): a hit needs the current generation and an age below the TTL
EngineCacheHit(params) ==
    /\ params \in DOMAIN cache
    /\ cache[params].generation = generation
    /\ NowSeconds - cache[params].insertedAt < CacheTTL

\* 4.4 List: the answer to a request
EngineList(params) ==
    IF EngineCacheHit(params) THEN cache[params].value ELSE EngineScan(store, params)

\* 4.2 put(queryKey, result, ttl) on a miss
EngineCachePut(params) ==
    IF EngineCacheHit(params) THEN cache
    ELSE [k \in DOMAIN cache \cup {params} |->
            IF k = params
            THEN [value |-> EngineScan(store, params), generation |-> generation,
                  insertedAt |-> NowSeconds]
            ELSE cache[k]]

(***************************************************************************)
(* formService: the query parameters a request carries.                    *)
(***************************************************************************)
\* options.skip || 0
ParamSkip(options) == IF Truthy(options.skip) THEN options.skip.n ELSE 0

\* Math.min(options.limit || 50, 1000)
ParamLimit(options) ==
    Min(IF Truthy(options.limit) THEN options.limit.n ELSE DefaultLimit, LimitCap)

\* formService.getSubmissions: skip, limit, and sort_by / order when given
\* ("" stands for a parameter that is not sent)
GetSubmissionsParams(options) ==
    [skip |-> ParamSkip(options), limit |-> ParamLimit(options),
     sort_by |-> options.sort_by, order |-> options.order]

\* formService.searchSubmissions: query when given, skip, limit
SearchSubmissionsParams(options) ==
    [query |-> options.query, skip |-> ParamSkip(options),
     limit |-> ParamLimit(options)]

\* SubmissionsList.fetchSubmissions: the options it passes
FetchOptions(by, order) ==
    [skip |-> JsNum(0), limit |-> JsNum(FetchLimit),
     sort_by |-> IF by = "submitted_at" THEN "submitted_at" ELSE "id",
     order |-> order]

\* DynamicForm.loadExistingEmails: the options it passes
EmailsOptions ==
    [skip |-> JsNum(0), limit |-> JsNum(EmailsLimit), sort_by |-> "", order |-> ""]

(***************************************************************************)
(* DynamicForm.                                                            *)
(***************************************************************************)
GenderOptions == {sMale, sFemale, sOther}

\* /^[^\s@]+@[^\s@]+\.[^\s@]+$/ : no white space, one @, not first, and a
\* dot after it that is neither next to the @ nor last
EmailRegexTest(s) ==
    /\ \A i \in 1..Len(s) : ~IsSpace(s[i])
    /\ Cardinality({i \in 1..Len(s) : s[i] = "@"}) = 1
    /\ LET at == CHOOSE i \in 1..Len(s) : s[i] = "@"
       IN  /\ at > 1
           /\ \E d \in (at + 2)..(Len(s) - 1) : s[d] = "."

\* parseFloat of an input's text: the decimal digits it starts with
\* (NaN, here [nan |-> TRUE], when it starts with none)
ParseFloat(s) ==
    LET stop == {i \in 1..Len(s) : ~IsDigit(s[i])}
        len == IF stop = {} THEN Len(s)
               ELSE (CHOOSE i \in stop : \A j \in stop : i <= j) - 1
        val[i \in 0..len] == IF i = 0 THEN 0 ELSE val[i - 1] * 10 + DigitValue(s[i])
    IN  IF len = 0 THEN [nan |-> TRUE, n |-> 0] ELSE [nan |-> FALSE, n |-> val[len]]

\* the existing-email check of validateForm and renderField
EmailExists(value, existing) == value \in existing

\* validateForm under App.formSchema, apart from the existing-email check
FieldErrors(form) ==
    (IF form.name = <<>> THEN {<<"name", "required">>}
     ELSE (IF Len(form.name) < NameMinLength THEN {<<"name", "minLength">>} ELSE {})
          \cup (IF Len(form.name) > NameMaxLength THEN {<<"name", "maxLength">>} ELSE {}))
    \cup
    (IF form.email = <<>> THEN {<<"email", "required">>}
     ELSE IF ~EmailRegexTest(form.email) THEN {<<"email", "format">>} ELSE {})
    \cup
    (IF JsString(form.age) = <<>> THEN {<<"age", "required">>}
     ELSE LET num == ParseFloat(JsString(form.age))
          IN  IF num.nan THEN {<<"age", "number">>}
              ELSE (IF num.n < AgeMin THEN {<<"age", "min">>} ELSE {})
                   \cup (IF num.n > AgeMax THEN {<<"age", "max">>} ELSE {}))
    \cup
    (IF form.gender = <<>> THEN {<<"gender", "required">>}
     ELSE IF form.gender \notin GenderOptions THEN {<<"gender", "selection">>} ELSE {})

\* validateForm: newErrors
ValidateForm(form, existing) ==
    FieldErrors(form)
    \cup (IF form.email # <<>> /\ EmailExists(form.email, existing)
          THEN {<<"email", "exists">>} ELSE {})

\* loadExistingEmails: the distinct non-empty emails of the response
EmailsOf(response) ==
    {response.submissions[i].form_data.email : i \in 1..Len(response.submissions)}
        \ {<<>>}

(***************************************************************************)
(* SubmissionsList.                                                        *)
(***************************************************************************)
SortFields == {"id", "submitted_at", "name", "email", "age", "gender"}
SortOrders == {"asc", "desc"}
PageSizes == {5, 10, 20, 50}

\* a key that takes numbers as they are and parses no text
ParseIntNumbersOnly(v) == v.n

\* parseInt(v) || 0 : the integer the text starts with, 0 when there is none
ParseIntOrZero(v) ==
    IF v.t = "num" THEN v.n
    ELSE LET body == Trim(JsString(v))
             num == ParseFloat(body)
         IN  IF v.t = "str" /\ ~num.nan THEN num.n ELSE 0

\* sortSubmissions: the comparator's aValue < bValue for the sort field
ValueLess(a, b, by) ==
    CASE by = "submitted_at" -> a.submitted_at < b.submitted_at
      [] by = "name" ->
            StrLess(ToLowerCase(a.form_data.name), ToLowerCase(b.form_data.name))
      [] by = "email" ->
            StrLess(ToLowerCase(a.form_data.email), ToLowerCase(b.form_data.email))
      [] by = "age" ->
            ParseIntOrZero(a.form_data.age) < ParseIntOrZero(b.form_data.age)
      [] by = "gender" ->
            StrLess(ToLowerCase(a.form_data.gender), ToLowerCase(b.form_data.gender))
      [] OTHER -> a.id < b.id

\* sortSubmissions: the comparator returns a negative number (a first)
CompareBefore(a, b, by, order) ==
    IF order = "asc" THEN ValueLess(a, b, by) ELSE ValueLess(b, a, by)

\* sortSubmissions
SortSubmissions(data, by, order) ==
    StableSort(data, [p \in (1..Len(data)) \X (1..Len(data)) |->
                        CompareBefore(data[p[1]], data[p[2]], by, order)])

\* filter effect: the test of one submission against the search text
MatchesSearch(sub, text) ==
    LET query == ToLowerCase(text)
        data == sub.form_data
    IN  \/ (data.name # <<>> /\ Includes(ToLowerCase(data.name), query))
        \/ (data.email # <<>> /\ Includes(ToLowerCase(data.email), query))
        \/ (Truthy(data.age) /\ Includes(JsString(data.age), query))
        \/ (data.gender # <<>> /\ Includes(ToLowerCase(data.gender), query))
        \/ Includes(DigitsOf(sub.id), query)

\* filter effect: search, then sort
FilterResult(subs, text, by, order) ==
    SortSubmissions(
        IF Trim(text) # <<>> THEN SelectSeq(subs, LAMBDA sub : MatchesSearch(sub, text))
        ELSE subs,
        by, order)

\* a page that starts one record late
PageOfShifted(result, pg, size) == Slice(result, pg * size + 1, pg * size + size)

\* filter effect: the page shown
PageOf(result, pg, size) == Slice(result, pg * size, pg * size + size)

\* Math.ceil(total / pageSize) || 1
TotalPages(n, size) == IF n = 0 THEN 1 ELSE (n + size - 1) \div size

(***************************************************************************)
(* Initial state: the page just loaded.  App shows the form tab, so        *)
(* DynamicForm is mounted and its mount effect has called                  *)
(* loadExistingEmails; SubmissionsList is not mounted and its variables    *)
(* hold the values useState gives them.  A successful submit ends with     *)
(* onSuccess switching the tab, which unmounts the form: its success       *)
(* message is never part of a state between two handlers.                  *)
(***************************************************************************)
NoRequest == [fn |-> "", options |-> EmailsOptions,
              params |-> GetSubmissionsParams(EmailsOptions), query |-> <<>>]

FormInitial ==
    /\ formData = EmptyForm
    /\ errors = {}
    /\ formLoading = FALSE
    /\ submitError = FALSE
    /\ existingEmails = {}

ListInitial ==
    /\ submissions = <<>>
    /\ filteredSubmissions = <<>>
    /\ total = 0
    /\ listLoading = FALSE
    /\ listError = FALSE
    /\ searchQuery = <<>>
    /\ page = 0
    /\ pageSize = 10
    /\ sortBy = "submitted_at"
    /\ sortOrder = "desc"

\* the list just mounted: useState values, and the mount effect's
\* fetchSubmissions has set loading
ListJustMounted ==
    /\ submissions = <<>>
    /\ filteredSubmissions = <<>>
    /\ total = 0
    /\ listLoading = TRUE
    /\ listError = FALSE
    /\ searchQuery = <<>>
    /\ page = 0
    /\ pageSize = 10
    /\ sortBy = "submitted_at"
    /\ sortOrder = "desc"

IdleFetch ==
    [pending |-> FALSE,
     params |-> GetSubmissionsParams(FetchOptions("submitted_at", "desc"))]

\* nothing under way
AsyncInitial ==
    /\ checked = <<>>
    /\ submitsInFlight = <<>>
    /\ fetchesInFlight = <<>>
    /\ deletesInFlight = <<>>
    /\ debounceTimer = FALSE
    /\ deleteClicks = 0

EngineInit ==
    /\ store = <<>>
    /\ nextId = 1
    /\ index = {}
    /\ cache = [k \in {} |-> 0]
    /\ generation = 0
    /\ now = 0

Init ==
    /\ EngineInit
    /\ activeTab = "form"
    /\ refreshSubmissions = 0
    /\ FormInitial
    /\ emailsLoad = "pending"
    /\ ListInitial
    /\ listFetch = IdleFetch
    /\ request = NoRequest
    /\ AsyncInitial

(***************************************************************************)
(* Engine steps (spec.md 4.4).  Each is one atomic request.                *)
(***************************************************************************)
\* Submit: append, register, invalidate
EngineSubmit(form) ==
    /\ store' = Append(store, EngineNewSubmission(form))
    /\ nextId' = nextId + 1
    /\ index' = EngineRegister(form.email)
    /\ generation' = EngineInvalidate
    /\ UNCHANGED <<cache, now>>

\* Delete: remove, unregister the email's last submission, invalidate
EngineDelete(id) ==
    /\ store' = EngineRemove(id)
    /\ index' = EngineUnregister(id)
    /\ generation' = EngineInvalidate
    /\ UNCHANGED <<nextId, cache, now>>

\* List: read through the cache
EngineRead(params) ==
    /\ cache' = EngineCachePut(params)
    /\ UNCHANGED <<store, nextId, index, generation, now>>

\* time passes
Tick ==
    /\ now < MaxTicks
    /\ now' = now + 1
    /\ UNCHANGED <<store, nextId, index, cache, generation>>
    /\ UNCHANGED <<appVars, formVars, listVars, request, asyncVars>>

\* an API client posts a form (README, "Test API")
ApiSubmit ==
    \E form \in ApiForms :
        /\ nextId <= MaxSubmissions
        /\ EngineValid(form)
        /\ EngineSubmit(form)
        /\ UNCHANGED <<appVars, formVars, listVars, request, asyncVars>>

(***************************************************************************)
(* Mounting and unmounting (App renders one tab's component at a time).    *)
(***************************************************************************)
FormMount ==
    /\ formData' = EmptyForm
    /\ errors' = {}
    /\ formLoading' = FALSE
    /\ submitError' = FALSE
    /\ existingEmails' = {}
    /\ emailsLoad' = "pending"

FormUnmount ==
    /\ formData' = EmptyForm
    /\ errors' = {}
    /\ formLoading' = FALSE
    /\ submitError' = FALSE
    /\ existingEmails' = {}
    /\ emailsLoad' = "idle"

\* SubmissionsList mount effect: setPage(0); fetchSubmissions()
ListMount ==
    /\ submissions' = <<>>
    /\ filteredSubmissions' = <<>>
    /\ total' = 0
    /\ listLoading' = TRUE
    /\ listError' = FALSE
    /\ searchQuery' = <<>>
    /\ page' = 0
    /\ pageSize' = 10
    /\ sortBy' = "submitted_at"
    /\ sortOrder' = "desc"
    /\ listFetch' = [pending |-> TRUE,
                     params |-> GetSubmissionsParams(FetchOptions("submitted_at", "desc"))]

ListUnmount ==
    /\ submissions' = <<>>
    /\ filteredSubmissions' = <<>>
    /\ total' = 0
    /\ listLoading' = FALSE
    /\ listError' = FALSE
    /\ searchQuery' = <<>>
    /\ page' = 0
    /\ pageSize' = 10
    /\ sortBy' = "submitted_at"
    /\ sortOrder' = "desc"
    /\ listFetch' = IdleFetch

\* App: the "Submit Form" tab button
TabForm ==
    /\ activeTab = "submissions"
    /\ activeTab' = "form"
    /\ FormMount
    /\ ListUnmount
    /\ UNCHANGED <<engineVars, refreshSubmissions, request, asyncVars>>

\* App: the "View Submissions" tab button
TabSubmissions ==
    /\ activeTab = "form"
    /\ activeTab' = "submissions"
    /\ FormUnmount
    /\ ListMount
    /\ UNCHANGED <<engineVars, refreshSubmissions, request, asyncVars>>

(***************************************************************************)
(* DynamicForm handlers.                                                   *)
(***************************************************************************)
\* handleChange, field by field, until the form reads f
FillForm ==
    \E f \in UiForms :
        /\ activeTab = "form"
        /\ formData' = f
        /\ errors' = {}
        /\ UNCHANGED <<formLoading, submitError, existingEmails, emailsLoad>>
        /\ UNCHANGED <<engineVars, appVars, listVars, request, asyncVars>>

\* loadExistingEmails: the response arrives
LoadEmailsResolve ==
    /\ emailsLoad = "pending"
    /\ existingEmails' = EmailsOf(EngineList(GetSubmissionsParams(EmailsOptions)))
    /\ EngineRead(GetSubmissionsParams(EmailsOptions))
    /\ emailsLoad' = "idle"
    /\ UNCHANGED <<formData, errors, formLoading, submitError>>
    /\ UNCHANGED <<appVars, listVars, request, asyncVars>>

\* loadExistingEmails: the request fails; the catch only logs
LoadEmailsReject ==
    /\ emailsLoad = "pending"
    /\ emailsLoad' = "idle"
    /\ UNCHANGED <<formData, errors, formLoading, submitError, existingEmails>>
    /\ UNCHANGED <<engineVars, appVars, listVars, request, asyncVars>>

\* handleSubmit: validateForm fails, the handler returns
HandleSubmitInvalid ==
    /\ activeTab = "form"
    /\ ~formLoading
    /\ ValidateForm(formData, existingEmails) # {}
    /\ errors' = ValidateForm(formData, existingEmails)
    /\ submitError' = FALSE
    /\ UNCHANGED <<formData, formLoading, existingEmails, emailsLoad>>
    /\ UNCHANGED <<engineVars, appVars, listVars, request, asyncVars>>

\* handleSubmit: submitForm succeeds; onSuccess (App.handleFormSuccess)
\* bumps the list's key and switches to the submissions tab
HandleSubmitStored ==
    /\ activeTab = "form"
    /\ ~formLoading
    /\ ValidateForm(formData, existingEmails) = {}
    /\ nextId <= MaxSubmissions
    /\ EngineValid(formData)
    /\ EngineSubmit(formData)
    /\ refreshSubmissions' = refreshSubmissions + 1
    /\ activeTab' = "submissions"
    /\ FormUnmount
    /\ ListMount
    /\ UNCHANGED <<request, asyncVars>>

\* handleSubmit: submitForm throws (store unavailable, timeout)
HandleSubmitFailed ==
    /\ activeTab = "form"
    /\ ~formLoading
    /\ ValidateForm(formData, existingEmails) = {}
    /\ errors' = {}
    /\ submitError' = TRUE
    /\ UNCHANGED <<formData, formLoading, existingEmails, emailsLoad>>
    /\ UNCHANGED <<engineVars, appVars, listVars, request, asyncVars>>

HandleSubmit == HandleSubmitInvalid \/ HandleSubmitStored \/ HandleSubmitFailed

(***************************************************************************)
(* SubmissionsList handlers.  The filter effect runs after every change of *)
(* submissions, searchQuery, page, pageSize, sortBy or sortOrder, so each  *)
(* handler below ends with it.                                             *)
(***************************************************************************)
FilterEffect ==
    \E result \in {FilterResult(submissions', searchQuery', sortBy', sortOrder')} :
        /\ filteredSubmissions' = PageOf(result, page', pageSize')
        /\ total' = Len(result)

\* fetchSubmissions: the response arrives
FetchResolve ==
    /\ listFetch.pending
    /\ submissions' = EngineList(listFetch.params).submissions
    /\ EngineRead(listFetch.params)
    /\ listLoading' = FALSE
    /\ listFetch' = [listFetch EXCEPT !.pending = FALSE]
    /\ UNCHANGED <<listError, searchQuery, page, pageSize, sortBy, sortOrder>>
    /\ FilterEffect
    /\ UNCHANGED <<appVars, formVars, request, asyncVars>>

\* fetchSubmissions: the request fails
FetchReject ==
    /\ listFetch.pending
    /\ listLoading' = FALSE
    /\ listError' = TRUE
    /\ listFetch' = [listFetch EXCEPT !.pending = FALSE]
    /\ UNCHANGED <<submissions, filteredSubmissions, total,
                   searchQuery, page, pageSize, sortBy, sortOrder>>
    /\ UNCHANGED <<engineVars, appVars, formVars, request, asyncVars>>

ShownIds == {filteredSubmissions[i].id : i \in 1..Len(filteredSubmissions)}

\* handleDelete on a row: deleteSubmission succeeds, fetchSubmissions starts
HandleDeleteDone ==
    \E id \in ShownIds :
        /\ activeTab = "submissions"
        /\ ~listFetch.pending
        /\ EngineHasId(id)
        /\ EngineDelete(id)
        /\ listLoading' = TRUE
        /\ listError' = FALSE
        /\ listFetch' = [pending |-> TRUE,
                         params |-> GetSubmissionsParams(FetchOptions(sortBy, sortOrder))]
        /\ UNCHANGED <<submissions, filteredSubmissions, total,
                       searchQuery, page, pageSize, sortBy, sortOrder>>
        /\ UNCHANGED <<appVars, formVars, request, asyncVars>>

\* handleDelete on a row: deleteSubmission throws
HandleDeleteFailed ==
    \E id \in ShownIds :
        /\ activeTab = "submissions"
        /\ ~listFetch.pending
        /\ listError' = TRUE
        /\ UNCHANGED <<submissions, filteredSubmissions, total, listLoading,
                       searchQuery, page, pageSize, sortBy, sortOrder, listFetch>>
        /\ UNCHANGED <<engineVars, appVars, formVars, request, asyncVars>>

HandleDelete == HandleDeleteDone \/ HandleDeleteFailed

(***************************************************************************)
(* Spec: operations one at a time.  The form with its tab switches, the    *)
(* list's fetch and its deletes, and an API client.  No request fails      *)
(* except loadExistingEmails, whose failure the form swallows.             *)
(***************************************************************************)
Next ==
    \/ ApiSubmit
    \/ TabForm
    \/ TabSubmissions
    \/ FillForm
    \/ LoadEmailsResolve
    \/ LoadEmailsReject
    \/ HandleSubmitInvalid
    \/ HandleSubmitStored
    \/ FetchResolve
    \/ HandleDeleteDone

Spec == Init /\ [][Next]_vars

(***************************************************************************)
(* Claims about Submit, the duplicate flag and the existing emails.        *)
(***************************************************************************)
StoredEmails == {store[i].form_data.email : i \in 1..Len(store)}
NormalizedStoredEmails == {EngineNormalize(e) : e \in StoredEmails}

\* C1: a Submit of an otherwise valid form whose email matches a stored
\* submission reaches the store, appends a new submission and that
\* submission is flagged is_duplicate.
C1_DuplicateSubmitIsStored ==
    [][(/\ HandleSubmit
        /\ FieldErrors(formData) = {}
        /\ EngineNormalize(formData.email) \in NormalizedStoredEmails)
       => (/\ Len(store') = Len(store) + 1
           /\ store'[Len(store')].form_data = formData
           /\ store'[Len(store')].is_duplicate)]_vars

\* C2: the submission a step creates has is_duplicate exactly when a
\* submission stored before the step has the same normalized email.
C2_DuplicateFlagIffEmailStored ==
    [][nextId' = nextId + 1
       => LET new == store'[Len(store')]
          IN  new.is_duplicate
              <=> EngineNormalize(new.form_data.email) \in NormalizedStoredEmails]_vars

\* C2 witness: a duplicate was flagged and an unseen email was not
C2_Witness ==
    /\ \E i \in 1..Len(store) : store[i].is_duplicate
    /\ \E i \in 1..Len(store) : ~store[i].is_duplicate

\* the emails a user or a client may write
KnownEmails == {eA, eAUpper, eASpaced, eB}

\* C3: two emails that differ only in case or surrounding white space get
\* the same answer from the form's existing-email check.
C3_CheckIgnoresCaseAndSpace ==
    \A e1 \in KnownEmails : \A e2 \in KnownEmails :
        EngineNormalize(e1) = EngineNormalize(e2)
        => (EmailExists(e1, existingEmails) <=> EmailExists(e2, existingEmails))

\* C4: when the form has just reloaded its existing emails, they are exactly
\* the distinct normalized emails of the stored submissions.
C4_ExistingEmailsAreNormalizedStored ==
    [][LoadEmailsResolve => existingEmails' = NormalizedStoredEmails]_vars

(***************************************************************************)
(* SpecCache: the engine's cache under writes and passing time.  An API    *)
(* client submits, the list fetches and deletes, the form loads its        *)
(* emails, the clock ticks (two ticks make one TTL).                       *)
(***************************************************************************)
NextCache ==
    \/ Tick
    \/ ApiSubmit
    \/ TabForm
    \/ TabSubmissions
    \/ LoadEmailsResolve
    \/ FetchResolve
    \/ HandleDeleteDone

SpecCache == Init /\ [][NextCache]_vars

\* the List requests the front end sends
RequestKeys ==
    {GetSubmissionsParams(EmailsOptions)}
    \cup {GetSubmissionsParams(FetchOptions(by, order)) :
            by \in SortFields, order \in SortOrders}

\* C5: whatever was cached before a write, a List answers with the store's
\* current submissions: no request gets the pre-write set.
C5_ListAfterWriteIsCurrent ==
    \A k \in RequestKeys : EngineList(k) = EngineScan(store, k)

\* C5 witness: a result cached before a write is still within its TTL, no
\* longer matches the store, and is not what List answers.
C5_Witness ==
    \E k \in DOMAIN cache :
        /\ NowSeconds - cache[k].insertedAt < CacheTTL
        /\ cache[k].generation < generation
        /\ cache[k].value # EngineScan(store, k)
        /\ EngineList(k) # cache[k].value

(***************************************************************************)
(* SubmissionsList: search, sort and pagination controls.                  *)
(***************************************************************************)
\* handleSearchChange: setSearchQuery(value); setPage(0); the previous timer
\* is cleared and a new one set, whose callback is empty
HandleSearchChange ==
    \E value \in Queries :
        /\ activeTab = "submissions"
        /\ searchQuery' = value
        /\ page' = 0
        /\ debounceTimer' = TRUE
        /\ UNCHANGED <<submissions, listLoading, listError, pageSize, sortBy,
                       sortOrder, listFetch>>
        /\ FilterEffect
        /\ UNCHANGED <<checked, submitsInFlight, fetchesInFlight, deletesInFlight,
                       deleteClicks>>
        /\ UNCHANGED <<engineVars, appVars, formVars, request>>

\* 500 ms after the last change the timer fires; its callback does nothing
DebounceFire ==
    /\ debounceTimer
    /\ debounceTimer' = FALSE
    /\ UNCHANGED <<checked, submitsInFlight, fetchesInFlight, deletesInFlight,
                   deleteClicks>>
    /\ UNCHANGED <<engineVars, appVars, formVars, listVars, request>>

\* the "Sort by" select: setSortBy(e.target.value)
SetSortBy ==
    \E field \in SortFields :
        /\ activeTab = "submissions"
        /\ sortBy' = field
        /\ UNCHANGED <<submissions, listLoading, listError, searchQuery, page,
                       pageSize, sortOrder, listFetch>>
        /\ FilterEffect
        /\ UNCHANGED <<engineVars, appVars, formVars, request, asyncVars>>

\* the "Order" select: setSortOrder(e.target.value)
SetSortOrder ==
    \E order \in SortOrders :
        /\ activeTab = "submissions"
        /\ sortOrder' = order
        /\ UNCHANGED <<submissions, listLoading, listError, searchQuery, page,
                       pageSize, sortBy, listFetch>>
        /\ FilterEffect
        /\ UNCHANGED <<engineVars, appVars, formVars, request, asyncVars>>

\* handleColumnClick: toggle the order on the same field, else sort the new
\* field descending
HandleColumnClick ==
    \E field \in SortFields :
        /\ activeTab = "submissions"
        /\ IF sortBy = field
           THEN /\ sortOrder' = (IF sortOrder = "desc" THEN "asc" ELSE "desc")
                /\ sortBy' = sortBy
           ELSE /\ sortBy' = field
                /\ sortOrder' = "desc"
        /\ UNCHANGED <<submissions, listLoading, listError, searchQuery, page,
                       pageSize, listFetch>>
        /\ FilterEffect
        /\ UNCHANGED <<engineVars, appVars, formVars, request, asyncVars>>

\* "Previous": setPage(Math.max(0, page - 1)), disabled on the first page
PrevPage ==
    /\ activeTab = "submissions"
    /\ page > 0
    /\ page' = Max(0, page - 1)
    /\ UNCHANGED <<submissions, listLoading, listError, searchQuery, pageSize,
                   sortBy, sortOrder, listFetch>>
    /\ FilterEffect
    /\ UNCHANGED <<engineVars, appVars, formVars, request, asyncVars>>

\* "Next": setPage(Math.min(totalPages - 1, page + 1)), disabled on the last
NextPage ==
    /\ activeTab = "submissions"
    /\ page < TotalPages(total, pageSize) - 1
    /\ page' = Min(TotalPages(total, pageSize) - 1, page + 1)
    /\ UNCHANGED <<submissions, listLoading, listError, searchQuery, pageSize,
                   sortBy, sortOrder, listFetch>>
    /\ FilterEffect
    /\ UNCHANGED <<engineVars, appVars, formVars, request, asyncVars>>

\* the page size select: setPageSize(parseInt(e.target.value)); setPage(0)
SetPageSize ==
    \E size \in PageSizes :
        /\ activeTab = "submissions"
        /\ pageSize' = size
        /\ page' = 0
        /\ UNCHANGED <<submissions, listLoading, listError, searchQuery, sortBy,
                       sortOrder, listFetch>>
        /\ FilterEffect
        /\ UNCHANGED <<engineVars, appVars, formVars, request, asyncVars>>

\* handleDelete as above, within a budget of deletes
DeleteWithinBudget ==
    /\ generation - (nextId - 1) < MaxDeletes
    /\ HandleDeleteDone

(***************************************************************************)
(* Initial states of the list specifications: an API client has posted     *)
(* some forms, then the user has opened the submissions tab, so the list   *)
(* is mounted and its first fetch is in flight.                            *)
(***************************************************************************)
ListOpened(forms, spaced) ==
    /\ store = StoreOf(forms, spaced)
    /\ nextId = Len(forms) + 1
    /\ index = {EngineNormalize(forms[j].email) : j \in 1..Len(forms)}
    /\ cache = [k \in {} |-> 0]
    /\ generation = Len(forms)
    /\ now = IF spaced /\ Len(forms) > 0 THEN Len(forms) - 1 ELSE 0
    /\ activeTab = "submissions"
    /\ refreshSubmissions = 0
    /\ FormInitial
    /\ emailsLoad = "idle"
    /\ ListJustMounted
    /\ listFetch = [pending |-> TRUE,
                    params |-> GetSubmissionsParams(FetchOptions("submitted_at", "desc"))]
    /\ request = NoRequest
    /\ AsyncInitial

\* sequences of at most n elements of S
SeqsUpTo(S, n) == UNION {[1..k -> S] : k \in 0..n}

(***************************************************************************)
(* SpecSearch: the search box over a few submissions.                      *)
(***************************************************************************)
InitList ==
    \E forms \in SeqsUpTo(ListForms, MaxListed) : \E spaced \in BOOLEAN :
        ListOpened(forms, spaced)

NextSearch ==
    \/ FetchResolve
    \/ HandleSearchChange
    \/ DebounceFire

SpecSearch == InitList /\ [][NextSearch]_vars

(***************************************************************************)
(* SpecSort: the sort controls over a few submissions, with deletes.       *)
(***************************************************************************)
NextSort ==
    \/ FetchResolve
    \/ SetSortBy
    \/ SetSortOrder
    \/ HandleColumnClick
    \/ DeleteWithinBudget

SpecSort == InitList /\ [][NextSort]_vars

(***************************************************************************)
(* SpecPage: the pagination controls over up to MaxPaged submissions made  *)
(* of one form, with deletes.                                              *)
(***************************************************************************)
PagedForm == [name |-> sAnn, email |-> eA, age |-> JsNum(7), gender |-> sFemale]

InitPage ==
    \E n \in 0..MaxPaged : ListOpened([i \in 1..n |-> PagedForm], TRUE)

NextPaging ==
    \/ FetchResolve
    \/ PrevPage
    \/ NextPage
    \/ SetPageSize
    \/ DeleteWithinBudget

SpecPage == InitPage /\ [][NextPaging]_vars

(***************************************************************************)
(* SpecBulk: the list over about as many submissions as one fetch asks     *)
(* for.  The first submission is Bob's, all later ones are Ann's.          *)
(***************************************************************************)
BulkFirstForm == [name |-> sBob, email |-> eB, age |-> JsNum(7), gender |-> sOther]

BulkForms(n) == [i \in 1..n |-> IF i = 1 THEN BulkFirstForm ELSE PagedForm]

InitBulk ==
    \E n \in {FetchLimit, FetchLimit + 1} : ListOpened(BulkForms(n), TRUE)

\* "Next" as above, within a budget of clicks
NextPageWithinBudget ==
    /\ page < MaxPageClicks
    /\ NextPage

NextBulk ==
    \/ FetchResolve
    \/ HandleSearchChange
    \/ PrevPage
    \/ NextPageWithinBudget
    \/ SetPageSize

SpecBulk == InitBulk /\ [][NextBulk]_vars

(***************************************************************************)
(* SpecRequest: formService called by any caller, with any options.        *)
(***************************************************************************)
\* what a caller can pass as options.skip and options.limit
OptionNumbers ==
    {JsUndefined} \cup {JsNum(n) : n \in {-5, -1, 0, 1, 50, 999, 1000, 1001, 5000}}

GetOptions ==
    [skip : OptionNumbers, limit : OptionNumbers, sort_by : {"", "id"},
     order : {"", "desc"}]

SearchOptions ==
    [skip : OptionNumbers, limit : OptionNumbers, query : {<<>>, <<"a">>}]

\* formService.getSubmissions(options): the GET it sends
CallGetSubmissions ==
    \E options \in GetOptions :
        /\ request' = [fn |-> "getSubmissions", options |-> options,
                       params |-> GetSubmissionsParams(options), query |-> <<>>]
        /\ UNCHANGED <<engineVars, appVars, formVars, listVars, asyncVars>>

\* formService.searchSubmissions(options): the GET it sends
CallSearchSubmissions ==
    \E options \in SearchOptions :
        /\ request' = [fn |-> "searchSubmissions", options |-> options,
                       params |-> SearchSubmissionsParams(options),
                       query |-> options.query]
        /\ UNCHANGED <<engineVars, appVars, formVars, listVars, asyncVars>>

NextRequest ==
    \/ CallGetSubmissions
    \/ CallSearchSubmissions

SpecRequest == Init /\ [][NextRequest]_vars

(***************************************************************************)
(* Claims about the list: search, pagination bounds, ordering.             *)
(***************************************************************************)
\* the list view is mounted and shows the answer to its last fetch
ListSettled == activeTab = "submissions" /\ ~listFetch.pending /\ ~listLoading

\* the test C6 states: the lowercased query is a substring of the lowercased
\* name, email or gender, of the age as a string, or of the id as a string;
\* the empty query matches everything
StatedMatch(sub, text) ==
    \/ text = <<>>
    \/ LET query == ToLowerCase(text)
           data == sub.form_data
       IN  \/ Includes(ToLowerCase(data.name), query)
           \/ Includes(ToLowerCase(data.email), query)
           \/ Includes(ToLowerCase(data.gender), query)
           \/ Includes(JsString(data.age), query)
           \/ Includes(DigitsOf(sub.id), query)

\* C6: search returns a submission if and only if the lowercased query is a
\* substring of its lowercased name, email or gender, of its age written as a
\* string, or of its id written as a string; an empty query matches all.
\* With all results on one page, the rows shown are exactly the fetched
\* submissions that pass the stated test.
C6_SearchMatchesStatedFields ==
    (ListSettled /\ total <= pageSize) =>
        ShownIds = {submissions[i].id : i \in
                       {j \in 1..Len(submissions) : StatedMatch(submissions[j], searchQuery)}}

\* C8: the limit of any listing or search request is at most 1000 and at
\* least 1, and its skip is at least 0.
C8_LimitAndSkipWithinBounds ==
    request.fn # "" =>
        /\ request.params.limit <= LimitCap
        /\ request.params.limit >= 1
        /\ request.params.skip >= 0

\* the fetched submissions that pass the search test of the filter effect
MatchingFetched ==
    {i \in 1..Len(submissions) :
        Trim(searchQuery) = <<>> \/ MatchesSearch(submissions[i], searchQuery)}

\* C9: a page that starts at the last record (skip = total - 1) shows exactly
\* one record, a page that starts right after it (skip = total) shows none,
\* and the total reported is the number of matching records whatever the page.
C9_LastPageBoundaries ==
    ListSettled =>
        /\ total = Cardinality(MatchingFetched)
        /\ (page * pageSize = total - 1) => Len(filteredSubmissions) = 1
        /\ (total > 0 /\ page * pageSize = total) => Len(filteredSubmissions) = 0

\* C9 witness: with ten per page, the second page starts at skip = total = 10
\* and is empty while the total still says ten.
C9_Witness ==
    /\ ListSettled
    /\ pageSize = 10
    /\ page = 1
    /\ total = 10
    /\ filteredSubmissions = <<>>

\* C10: records that tie on the sort field are shown in ascending id order.
C10_TiesInAscendingId ==
    ListSettled =>
        \A i \in 1..Len(filteredSubmissions) : \A j \in 1..Len(filteredSubmissions) :
            ( /\ i < j
              /\ ~ValueLess(filteredSubmissions[i], filteredSubmissions[j], sortBy)
              /\ ~ValueLess(filteredSubmissions[j], filteredSubmissions[i], sortBy) )
            => filteredSubmissions[i].id < filteredSubmissions[j].id

\* C7: the total is the number of all stored submissions that match the
\* query, and the page shown is the slice [skip, skip + limit) of the complete
\* filtered list of stored submissions, however many are stored.
C7_SearchCoversAllStored ==
    ListSettled =>
        \E complete \in {FilterResult(store, searchQuery, sortBy, sortOrder)} :
            /\ total = Len(complete)
            /\ filteredSubmissions = PageOf(complete, page, pageSize)

(***************************************************************************)
(* Requests step by step.  A Submit is two engine steps (spec.md 5): the   *)
(* existence check, then the append that makes the record visible.  A      *)
(* handler that awaits a request is two steps as well: up to the await,    *)
(* and from the response on.                                               *)
(***************************************************************************)
\* a sequence without its i-th element
RemoveAt(seq, i) == [k \in 1..(Len(seq) - 1) |-> IF k < i THEN seq[k] ELSE seq[k + 1]]

\* Submits started and not yet stored
SubmitsUnderWay == Len(checked) + Len(submitsInFlight)

\* 4.4 Submit, second step: append with the flag the check gave, register,
\* invalidate
EngineCommit(form, dup) ==
    /\ store' = Append(store, [EngineNewSubmission(form) EXCEPT !.is_duplicate = dup])
    /\ nextId' = nextId + 1
    /\ index' = EngineRegister(form.email)
    /\ generation' = EngineInvalidate
    /\ UNCHANGED <<cache, now>>

\* an API client's Submit passes the existence check
ApiSubmitCheck ==
    \E form \in ApiForms :
        /\ nextId + SubmitsUnderWay <= MaxSubmissions
        /\ EngineValid(form)
        /\ checked' = Append(checked, [form |-> form, dup |-> EngineExists(form.email)])
        /\ UNCHANGED <<submitsInFlight, fetchesInFlight, deletesInFlight, debounceTimer, deleteClicks>>
        /\ UNCHANGED <<engineVars, appVars, formVars, listVars, request>>

\* an API client's Submit is stored
ApiSubmitCommit ==
    \E i \in 1..Len(checked) :
        /\ EngineCommit(checked[i].form, checked[i].dup)
        /\ checked' = RemoveAt(checked, i)
        /\ UNCHANGED <<submitsInFlight, fetchesInFlight, deletesInFlight, debounceTimer, deleteClicks>>
        /\ UNCHANGED <<appVars, formVars, listVars, request>>

\* handleSubmit up to the await, had the submit button stayed enabled while
\* loading
SubmitStartWhileLoading ==
    /\ activeTab = "form"
    /\ ValidateForm(formData, existingEmails) = {}
    /\ nextId + SubmitsUnderWay <= MaxSubmissions
    /\ formLoading' = TRUE
    /\ submitError' = FALSE
    /\ submitsInFlight' =
           Append(submitsInFlight, [form |-> formData, stage |-> "sent", dup |-> FALSE])
    /\ UNCHANGED <<formData, errors, existingEmails, emailsLoad>>
    /\ UNCHANGED <<checked, fetchesInFlight, deletesInFlight, debounceTimer, deleteClicks>>
    /\ UNCHANGED <<engineVars, appVars, listVars, request>>

\* handleSubmit up to the await: validateForm passes, setLoading(true),
\* submitForm(formData) is sent.  The submit button is disabled while loading.
SubmitStart ==
    /\ activeTab = "form"
    /\ ~formLoading
    /\ ValidateForm(formData, existingEmails) = {}
    /\ nextId + SubmitsUnderWay <= MaxSubmissions
    /\ formLoading' = TRUE
    /\ submitError' = FALSE
    /\ submitsInFlight' =
           Append(submitsInFlight, [form |-> formData, stage |-> "sent", dup |-> FALSE])
    /\ UNCHANGED <<formData, errors, existingEmails, emailsLoad>>
    /\ UNCHANGED <<checked, fetchesInFlight, deletesInFlight, debounceTimer, deleteClicks>>
    /\ UNCHANGED <<engineVars, appVars, listVars, request>>

\* the form's Submit passes the existence check
FormSubmitCheck ==
    \E i \in 1..Len(submitsInFlight) :
        /\ submitsInFlight[i].stage = "sent"
        /\ EngineValid(submitsInFlight[i].form)
        /\ submitsInFlight' =
               [submitsInFlight EXCEPT ![i].stage = "checked",
                                       ![i].dup = EngineExists(submitsInFlight[i].form.email)]
        /\ UNCHANGED <<checked, fetchesInFlight, deletesInFlight, debounceTimer, deleteClicks>>
        /\ UNCHANGED <<engineVars, appVars, formVars, listVars, request>>

\* a fetchSubmissions call just sent: the request and, once the engine has
\* answered, the submissions of the response
NewFetch(by, order) ==
    [params |-> GetSubmissionsParams(FetchOptions(by, order)),
     answered |-> FALSE, response |-> <<>>]

\* SubmissionsList mounts: useState values, then the mount effect's
\* setPage(0); fetchSubmissions() up to its await
ListMountSending ==
    /\ submissions' = <<>>
    /\ filteredSubmissions' = <<>>
    /\ total' = 0
    /\ listLoading' = TRUE
    /\ listError' = FALSE
    /\ searchQuery' = <<>>
    /\ page' = 0
    /\ pageSize' = 10
    /\ sortBy' = "submitted_at"
    /\ sortOrder' = "desc"
    /\ listFetch' = IdleFetch
    /\ fetchesInFlight' = <<NewFetch("submitted_at", "desc")>>

\* handleSubmit from the response on: setFormData({}), setErrors({}),
\* loadExistingEmails(), onSuccess (App.handleFormSuccess bumps the list's
\* key and shows the submissions tab, which unmounts the form)
SubmitContinue ==
    /\ refreshSubmissions' = refreshSubmissions + 1
    /\ activeTab' = "submissions"
    /\ FormUnmount
    /\ ListMountSending

\* the form's Submit is stored and its response arrives
FormSubmitCommit ==
    \E i \in 1..Len(submitsInFlight) :
        /\ submitsInFlight[i].stage = "checked"
        /\ EngineCommit(submitsInFlight[i].form, submitsInFlight[i].dup)
        /\ submitsInFlight' = RemoveAt(submitsInFlight, i)
        /\ SubmitContinue
        /\ UNCHANGED <<checked, deletesInFlight, debounceTimer, deleteClicks>>
        /\ UNCHANGED request

\* the form's Submit is stored in one engine step and its response arrives
SubmitResolve ==
    \E i \in 1..Len(submitsInFlight) :
        /\ submitsInFlight[i].stage = "sent"
        /\ EngineValid(submitsInFlight[i].form)
        /\ EngineSubmit(submitsInFlight[i].form)
        /\ submitsInFlight' = RemoveAt(submitsInFlight, i)
        /\ SubmitContinue
        /\ UNCHANGED <<checked, deletesInFlight, debounceTimer, deleteClicks>>
        /\ UNCHANGED request

\* handleSubmit, catch and finally: the request failed or timed out
\* (api.timeout); setSubmitError, setLoading(false)
SubmitReject ==
    \E i \in 1..Len(submitsInFlight) :
        /\ submitsInFlight' = RemoveAt(submitsInFlight, i)
        /\ submitError' = TRUE
        /\ formLoading' = FALSE
        /\ UNCHANGED <<formData, errors, existingEmails, emailsLoad>>
        /\ UNCHANGED <<checked, fetchesInFlight, deletesInFlight, debounceTimer, deleteClicks>>
        /\ UNCHANGED <<engineVars, appVars, listVars, request>>

\* the engine answers a List request of the list
EngineAnswerFetch ==
    \E i \in 1..Len(fetchesInFlight) :
        /\ ~fetchesInFlight[i].answered
        /\ fetchesInFlight' =
               [fetchesInFlight EXCEPT
                   ![i].answered = TRUE,
                   ![i].response = EngineList(fetchesInFlight[i].params).submissions]
        /\ EngineRead(fetchesInFlight[i].params)
        /\ UNCHANGED <<checked, submitsInFlight, deletesInFlight, debounceTimer, deleteClicks>>
        /\ UNCHANGED <<appVars, formVars, listVars, request>>

\* fetchSubmissions from the response on: setSubmissions, setLoading(false)
FetchDeliver ==
    \E i \in 1..Len(fetchesInFlight) :
        /\ fetchesInFlight[i].answered
        /\ submissions' = fetchesInFlight[i].response
        /\ listLoading' = FALSE
        /\ fetchesInFlight' = RemoveAt(fetchesInFlight, i)
        /\ UNCHANGED <<listError, searchQuery, page, pageSize, sortBy, sortOrder,
                       listFetch>>
        /\ FilterEffect
        /\ UNCHANGED <<checked, submitsInFlight, deletesInFlight, debounceTimer, deleteClicks>>
        /\ UNCHANGED <<engineVars, appVars, formVars, request>>

\* a failed fetch that leaves the loading flag set
FetchFailKeepsLoading ==
    \E i \in 1..Len(fetchesInFlight) :
        /\ listError' = TRUE
        /\ fetchesInFlight' = RemoveAt(fetchesInFlight, i)
        /\ UNCHANGED <<submissions, filteredSubmissions, total, listLoading,
                       searchQuery, page, pageSize, sortBy, sortOrder, listFetch>>
        /\ UNCHANGED <<checked, submitsInFlight, deletesInFlight, debounceTimer, deleteClicks>>
        /\ UNCHANGED <<engineVars, appVars, formVars, request>>

\* fetchSubmissions, catch and finally: the request failed or timed out;
\* setError, setLoading(false)
FetchFail ==
    \E i \in 1..Len(fetchesInFlight) :
        /\ listError' = TRUE
        /\ listLoading' = FALSE
        /\ fetchesInFlight' = RemoveAt(fetchesInFlight, i)
        /\ UNCHANGED <<submissions, filteredSubmissions, total,
                       searchQuery, page, pageSize, sortBy, sortOrder, listFetch>>
        /\ UNCHANGED <<checked, submitsInFlight, deletesInFlight, debounceTimer, deleteClicks>>
        /\ UNCHANGED <<engineVars, appVars, formVars, request>>

\* handleDelete up to the await: the user confirms, deleteSubmission(id) is sent
DeleteStart ==
    \E id \in ShownIds :
        /\ activeTab = "submissions"
        /\ deleteClicks < MaxDeleteClicks
        /\ deleteClicks' = deleteClicks + 1
        /\ deletesInFlight' = Append(deletesInFlight, [call |-> deleteClicks + 1, id |-> id])
        /\ UNCHANGED <<checked, submitsInFlight, fetchesInFlight, debounceTimer>>
        /\ UNCHANGED <<engineVars, appVars, formVars, listVars, request>>

\* the engine deletes the submission; handleDelete goes on with
\* fetchSubmissions() up to its await: setLoading(true), setError('')
DeleteResolve ==
    \E i \in 1..Len(deletesInFlight) :
        /\ EngineHasId(deletesInFlight[i].id)
        /\ EngineDelete(deletesInFlight[i].id)
        /\ deletesInFlight' = RemoveAt(deletesInFlight, i)
        /\ listLoading' = TRUE
        /\ listError' = FALSE
        /\ fetchesInFlight' = Append(fetchesInFlight, NewFetch(sortBy, sortOrder))
        /\ UNCHANGED <<submissions, filteredSubmissions, total,
                       searchQuery, page, pageSize, sortBy, sortOrder, listFetch>>
        /\ UNCHANGED <<checked, submitsInFlight, debounceTimer, deleteClicks>>
        /\ UNCHANGED <<appVars, formVars, request>>

\* handleDelete, catch: setError; nothing else changes
DeleteCaught(i) ==
    /\ deletesInFlight' = RemoveAt(deletesInFlight, i)
    /\ listError' = TRUE
    /\ UNCHANGED <<submissions, filteredSubmissions, total, listLoading,
                   searchQuery, page, pageSize, sortBy, sortOrder, listFetch>>
    /\ UNCHANGED <<checked, submitsInFlight, fetchesInFlight, debounceTimer, deleteClicks>>
    /\ UNCHANGED <<engineVars, appVars, formVars, request>>

\* a Delete of an unknown id taken for a success: handleDelete goes on with
\* fetchSubmissions()
DeleteNotFoundAsSuccess ==
    \E i \in 1..Len(deletesInFlight) :
        /\ ~EngineHasId(deletesInFlight[i].id)
        /\ deletesInFlight' = RemoveAt(deletesInFlight, i)
        /\ listLoading' = TRUE
        /\ listError' = FALSE
        /\ fetchesInFlight' = Append(fetchesInFlight, NewFetch(sortBy, sortOrder))
        /\ UNCHANGED <<submissions, filteredSubmissions, total,
                       searchQuery, page, pageSize, sortBy, sortOrder, listFetch>>
        /\ UNCHANGED <<checked, submitsInFlight, debounceTimer, deleteClicks>>
        /\ UNCHANGED <<engineVars, appVars, formVars, request>>

\* the engine has no submission with that id and answers NotFound
DeleteNotFound ==
    \E i \in 1..Len(deletesInFlight) :
        /\ ~EngineHasId(deletesInFlight[i].id)
        /\ DeleteCaught(i)

\* the delete request failed or timed out (api.timeout) before the engine
\* acted on it
DeleteFail ==
    \E i \in 1..Len(deletesInFlight) : DeleteCaught(i)

(***************************************************************************)
(* SpecOverlap: Submits of an API client and of the form that overlap in   *)
(* the engine.                                                             *)
(***************************************************************************)
NextOverlap ==
    \/ ApiSubmitCheck
    \/ ApiSubmitCommit
    \/ LoadEmailsResolve
    \/ FillForm
    \/ SubmitStart
    \/ FormSubmitCheck
    \/ FormSubmitCommit

SpecOverlap == Init /\ [][NextOverlap]_vars

(***************************************************************************)
(* SpecLive: the form, then the list, with every request able to fail.     *)
(* api is created with timeout: 10000, so a request that gets no response  *)
(* is rejected: each kind of completion is weakly fair.                    *)
(***************************************************************************)
LoadEmailsDone == LoadEmailsResolve \/ LoadEmailsReject
SubmitDone == SubmitResolve \/ SubmitReject
FetchDone == EngineAnswerFetch \/ FetchDeliver \/ FetchFail
DeleteDone == DeleteResolve \/ DeleteNotFound \/ DeleteFail

NextLive ==
    \/ FillForm
    \/ LoadEmailsResolve
    \/ LoadEmailsReject
    \/ SubmitStart
    \/ SubmitResolve
    \/ SubmitReject
    \/ EngineAnswerFetch
    \/ FetchDeliver
    \/ FetchFail
    \/ DeleteStart
    \/ DeleteResolve
    \/ DeleteNotFound
    \/ DeleteFail

SpecLive ==
    /\ Init
    /\ [][NextLive]_vars
    /\ WF_vars(LoadEmailsDone)
    /\ WF_vars(SubmitDone)
    /\ WF_vars(FetchDone)
    /\ WF_vars(DeleteDone)

(***************************************************************************)
(* SpecRace: the list over a few submissions, its fetches and deletes step *)
(* by step, so that responses can arrive in any order.  No request fails   *)
(* except a Delete of an id that is no longer on record.                   *)
(***************************************************************************)
\* as ListOpened, with the mount effect's fetch under way
ListOpenedSending(forms, spaced) ==
    /\ store = StoreOf(forms, spaced)
    /\ nextId = Len(forms) + 1
    /\ index = {EngineNormalize(forms[j].email) : j \in 1..Len(forms)}
    /\ cache = [k \in {} |-> 0]
    /\ generation = Len(forms)
    /\ now = IF spaced /\ Len(forms) > 0 THEN Len(forms) - 1 ELSE 0
    /\ activeTab = "submissions"
    /\ refreshSubmissions = 0
    /\ FormInitial
    /\ emailsLoad = "idle"
    /\ ListJustMounted
    /\ listFetch = IdleFetch
    /\ request = NoRequest
    /\ checked = <<>>
    /\ submitsInFlight = <<>>
    /\ fetchesInFlight = <<NewFetch("submitted_at", "desc")>>
    /\ deletesInFlight = <<>>
    /\ debounceTimer = FALSE
    /\ deleteClicks = 0

InitRace ==
    \E forms \in SeqsUpTo(ListForms, MaxListed) : ListOpenedSending(forms, TRUE)

NextRace ==
    \/ EngineAnswerFetch
    \/ FetchDeliver
    \/ DeleteStart
    \/ DeleteResolve
    \/ DeleteNotFound

SpecRace == InitRace /\ [][NextRace]_vars

(***************************************************************************)
(* Claims about sorting, overlapping requests, failures, the cache's TTL,  *)
(* the search box and the page index.                                      *)
(***************************************************************************)
\* the key C11 states for the age: the integer the value parses to, 0 when it
\* does not parse or is missing
StatedAgeKey(v) ==
    CASE v.t = "num" -> v.n
      [] v.t = "str" /\ ~ParseFloat(Trim(v.s)).nan -> ParseFloat(Trim(v.s)).n
      [] OTHER -> 0

\* a's stated key is smaller than b's
StatedKeyLess(a, b, by) ==
    CASE by = "age" -> StatedAgeKey(a.form_data.age) < StatedAgeKey(b.form_data.age)
      [] by = "name" ->
            StrLess(ToLowerCase(a.form_data.name), ToLowerCase(b.form_data.name))
      [] by = "email" ->
            StrLess(ToLowerCase(a.form_data.email), ToLowerCase(b.form_data.email))
      [] by = "gender" ->
            StrLess(ToLowerCase(a.form_data.gender), ToLowerCase(b.form_data.gender))
      [] by = "submitted_at" -> a.submitted_at < b.submitted_at
      [] OTHER -> a.id < b.id

\* the rows are the fetched submissions, each once, ordered by the stated key
\* in the chosen order
SortedByStatedKey ==
    (ListSettled /\ searchQuery = <<>> /\ total <= pageSize) =>
        /\ Len(filteredSubmissions) = Len(submissions)
        /\ \A i \in 1..Len(submissions) :
               Cardinality({j \in 1..Len(filteredSubmissions) :
                               filteredSubmissions[j] = submissions[i]}) = 1
        /\ \A i \in 1..Len(filteredSubmissions) : \A j \in 1..Len(filteredSubmissions) :
               i < j =>
                   IF sortOrder = "asc"
                   THEN ~StatedKeyLess(filteredSubmissions[j], filteredSubmissions[i], sortBy)
                   ELSE ~StatedKeyLess(filteredSubmissions[i], filteredSubmissions[j], sortBy)

C12_BestEffortDuplicateFlag ==
    /\ Len(store) = nextId - 1
    /\ \A i \in 1..Len(store) :
           store[i].is_duplicate =>
               \E j \in 1..(i - 1) :
                   EngineNormalize(store[j].form_data.email)
                       = EngineNormalize(store[i].form_data.email)

\* C12 witness: two stored records with the same normalized email, neither
\* flagged, and nothing else under way.
C12_Witness ==
    /\ Len(store) = 2
    /\ EngineNormalize(store[1].form_data.email) = EngineNormalize(store[2].form_data.email)
    /\ ~store[1].is_duplicate
    /\ ~store[2].is_duplicate
    /\ SubmitsUnderWay = 0

\* the delete call with this number is awaiting its response
DeleteInFlight(n) == \E i \in 1..Len(deletesInFlight) : deletesInFlight[i].call = n

\* C13: every started Submit, List or Delete call eventually completes, with
\* a result or an error, and once no call of a component is under way its
\* loading flag is false.
C13_EveryCallCompletes ==
    /\ [](submitsInFlight = <<>> => ~formLoading)
    /\ []((fetchesInFlight = <<>> /\ ~listFetch.pending) => ~listLoading)
    /\ (emailsLoad = "pending") ~> (emailsLoad = "idle")
    /\ (submitsInFlight # <<>>) ~> (submitsInFlight = <<>>)
    /\ (fetchesInFlight # <<>>) ~> (fetchesInFlight = <<>>)
    /\ \A n \in 1..MaxDeleteClicks : DeleteInFlight(n) ~> ~DeleteInFlight(n)

\* C13 witness: the list's only fetch ended in an error while submissions
\* are on record; nothing is under way and the loading flag is false.
C13_Witness ==
    /\ activeTab = "submissions"
    /\ store # <<>>
    /\ submissions = <<>>
    /\ listError
    /\ ~listLoading
    /\ fetchesInFlight = <<>>
    /\ deletesInFlight = <<>>

\* C14: a Delete of an id that no stored submission has changes nothing -
\* the stored submissions, the emails on record and the rows shown stay as
\* they were - and it is reported as an error.
C14_DeleteUnknownIdChangesNothing ==
    [][DeleteNotFound =>
          /\ store' = store
          /\ index' = index
          /\ submissions' = submissions
          /\ filteredSubmissions' = filteredSubmissions
          /\ total' = total
          /\ fetchesInFlight' = fetchesInFlight
          /\ listError']_vars

\* C14 witness: a second Delete of a row came back NotFound; the first one
\* had removed the submission, the row is still shown, the error is set and
\* no refetch was started for it.
C14_Witness ==
    /\ listError
    /\ deleteClicks = 2
    /\ deletesInFlight = <<>>
    /\ Len(fetchesInFlight) = 1
    /\ \E id \in ShownIds : ~EngineHasId(id)

\* C18: once every fetch has completed and no delete is pending, the
\* submissions the list holds are the ones on record.
C18_SettledListShowsStore ==
    (activeTab = "submissions" /\ fetchesInFlight = <<>> /\ deletesInFlight = <<>>
        /\ ~listFetch.pending) =>
        {submissions[i].id : i \in 1..Len(submissions)}
            = {store[i].id : i \in 1..Len(store)}

\* a List request with key k is answered in this step
ReadOf(k) ==
    \/ (FetchResolve /\ listFetch.params = k)
    \/ (LoadEmailsResolve /\ k = GetSubmissionsParams(EmailsOptions))

C16_SearchIsDebounced ==
    [][searchQuery' # searchQuery =>
          (filteredSubmissions' = filteredSubmissions /\ total' = total)]_vars

\* C17: in the submissions list the page index stays in range,
\* 0 <= page <= totalPages - 1, so no empty page is shown while submissions
\* match.
C17_PageStaysInRange ==
    activeTab = "submissions" =>
        /\ 0 <= page
        /\ page <= TotalPages(total, pageSize) - 1
        /\ (total > 0 => filteredSubmissions # <<>>)

\* C19: a form has at most one Submit in flight: loading is true exactly
\* while its submitForm call is pending, no call starts while loading is
\* true, and loading is false again after the response and after the failure.
C19_OneSubmitInFlight ==
    /\ [](Len(submitsInFlight) <= 1)
    /\ [](formLoading <=> submitsInFlight # <<>>)
    /\ [][Len(submitsInFlight') > Len(submitsInFlight) => ~formLoading]_vars
    /\ [][Len(submitsInFlight') < Len(submitsInFlight) => ~formLoading']_vars

\* C19 witness: a valid form has been submitted and its request is pending;
\* the form is loading and that request is the only one.
C19_Witness ==
    /\ activeTab = "form"
    /\ formLoading
    /\ Len(submitsInFlight) = 1
    /\ ValidateForm(submitsInFlight[1].form, existingEmails) = {}

=============================================================================
